---- MODULE Spec2Model ----
(***************************************************************************)
(* Redux store of the infrastructure alert dashboard: the infrastructure,  *)
(* alerts and predictions slices, modelled reducer by reducer.             *)
(***************************************************************************)
EXTENDS Integers, Sequences, FiniteSets, TLC

VARIABLES
    components,         \* infrastructure.components: component_id -> InfrastructureComponent
    selectedComponent,  \* infrastructure.selectedComponent
    infraLoading,       \* infrastructure.loading
    alerts,             \* alerts.alerts
    selectedAlert,      \* alerts.selectedAlert
    alertsLoading,      \* alerts.loading
    alertAction,        \* name of the alertsSlice action dispatched last
    predictions,        \* predictions.predictions
    selectedPrediction, \* predictions.selectedPrediction
    predLoading,        \* predictions.loading
    predAction,         \* name of the predictionsSlice action dispatched last
    detailsOpen,        \* Alerts page: useState detailsOpen
    statusRequests,     \* Alerts page: alertsApi.updateAlert calls awaiting their response
    registry,           \* the graph the backend holds
    engineQuery,        \* the query the engine received last
    engineAnswer,       \* the engine's answer to it
    impactAnalysis,     \* analysis.impactAnalysis
    failureDomains,     \* analysis.failureDomains
    healthStatus,       \* analysis.healthStatus
    analysisLoading,    \* analysis.loading
    analysisError,      \* analysis.error
    selectedComponentId, \* Analysis page: useState selectedComponentId
    selectedComponents, \* Analysis page: useState selectedComponents
    analysisType,       \* Analysis page: useState analysisType
    analysisDialogOpen, \* Analysis page: useState analysisDialogOpen
    tabValue,           \* Analysis page: useState tabValue
    analysisRequests,   \* Analysis page: analysisApi calls awaiting their response
    route,              \* the page the router has mounted
    optimalWindows,     \* predictions.optimalWindows
    predError,          \* predictions.error
    predictionsObject,  \* predictions.predictions when it holds an object, not an array
    selectedComponentIds, \* Predictions page: useState selectedComponentIds
    newDeploymentDialogOpen, \* Predictions page: useState newDeploymentDialogOpen
    predRequests,       \* Predictions page: predictionsApi calls awaiting their response
    infraError,         \* infrastructure.error
    alertsError,        \* alerts.error
    infraDetailsOpen,   \* Infrastructure page: useState detailsOpen
    affectedComponents, \* Infrastructure page: useState affectedComponents
    loadingAffected,    \* Infrastructure page: useState loadingAffected
    affectedRequests,   \* Infrastructure page: getAffectedComponents calls awaiting their response
    componentRequests,  \* Infrastructure page: updateComponent calls awaiting their response
    notifications,      \* ui.notifications
    notified,           \* number of addNotification actions dispatched so far
    now                 \* the wall clock read by new Date()

vars == <<components, selectedComponent, infraLoading, alerts, selectedAlert,
          alertsLoading, alertAction, predictions, selectedPrediction, predLoading,
          predAction, detailsOpen, statusRequests, registry, engineQuery, engineAnswer,
          impactAnalysis,
          failureDomains, healthStatus, analysisLoading, analysisError,
          selectedComponentId, selectedComponents, analysisType, analysisDialogOpen,
          tabValue, analysisRequests, route, optimalWindows, predError,
          predictionsObject, selectedComponentIds, newDeploymentDialogOpen,
          predRequests, infraError, alertsError, infraDetailsOpen, affectedComponents,
          loadingAffected, affectedRequests, componentRequests, notifications, notified,
          now>>

infraVars == <<components, selectedComponent, infraLoading>>
alertVars == <<alerts, selectedAlert, alertsLoading, alertAction>>
predVars == <<predictions, selectedPrediction, predLoading, predAction>>
alertsPageVars == <<detailsOpen, statusRequests>>
analysisVars == <<impactAnalysis, failureDomains, healthStatus, analysisLoading, analysisError>>
analysisPageVars == <<selectedComponentId, selectedComponents, analysisType,
                      analysisDialogOpen, tabValue, analysisRequests>>
predPageVars == <<optimalWindows, predError, predictionsObject, selectedComponentIds,
                  newDeploymentDialogOpen, predRequests>>
engineVars == <<engineQuery, engineAnswer>>
errorVars == <<infraError, alertsError>>
infraPageVars == <<infraDetailsOpen, affectedComponents, loadingAffected, affectedRequests,
                   componentRequests>>
uiVars == <<notifications, notified>>
shellVars == <<errorVars, infraPageVars, uiVars>>
pageVars == <<alertsPageVars, registry, engineVars, analysisVars, analysisPageVars, route,
              predPageVars, shellVars>>

\* What an action of one page leaves alone
offAlertsPage == <<registry, engineVars, route, analysisVars, analysisPageVars, predPageVars,
                   infraVars, predVars, shellVars, now>>
offAnalysisPage == <<registry, engineVars, route, alertsPageVars, predPageVars, infraVars, alertVars,
                     predVars, shellVars, now>>
offPredictionsPage == <<registry, engineVars, route, alertsPageVars, analysisVars, analysisPageVars,
                        infraVars, alertVars, shellVars, now>>

----------------------------------------------------------------------------
(* Bounds and input sets *)

MaxTime == 1
MaxPredictions == 2

CompIds == {"c1", "c2"}
AlertIds == {"a1", "a2"}
DeployIds == {"d1", "d2"}

Null == "null"
Undefined == "undefined"

\* An optional object (Alert | null) is the empty or the one-element sequence
None == <<>>
Some(x) == <<x>>

\* An absent timestamp (resolution_time?: string)
NoTime == -1

ComponentStatus == {"healthy", "degraded", "warning", "critical", "unknown", "maintenance"}
StatusInputs == {"healthy", "critical"}

AlertStatus == {"new", "acknowledged", "in_progress", "resolved", "closed"}

----------------------------------------------------------------------------
(* Array helpers *)

Elems(s) == {s[i] : i \in 1..Len(s)}

Includes(s, x) == \E i \in 1..Len(s) : s[i] = x

Without(s, x) == SelectSeq(s, LAMBDA e : e # x)

NoDup(s) == \A i, j \in 1..Len(s) : s[i] = s[j] => i = j

Put(f, k, v) == [x \in (DOMAIN f) \cup {k} |-> IF x = k THEN v ELSE f[x]]

Drop(f, k) == [x \in (DOMAIN f) \ {k} |-> f[x]]

----------------------------------------------------------------------------
(* The wall clock *)

Tick ==
    /\ now < MaxTime
    /\ now' = now + 1
    /\ UNCHANGED <<infraVars, alertVars, predVars, pageVars>>

----------------------------------------------------------------------------
(* infrastructureSlice *)

MkComponent(id, st, deps, dents, acts, t) ==
    [component_id |-> id, status |-> st, dependencies |-> deps,
     dependents |-> dents, active_alerts |-> acts, updated_at |-> t]

EdgeInputs == {<<>>, <<"c1">>, <<"c2">>, <<"c1", "c2">>}

ComponentInputs ==
    {MkComponent(id, "healthy", deps, dents, <<>>, now) :
        id \in CompIds, deps \in EdgeInputs, dents \in EdgeInputs}

\* Lists of ids in the fixed order c1, c2
IdList(S) == (IF "c1" \in S THEN <<"c1">> ELSE <<>>) \o (IF "c2" \in S THEN <<"c2">> ELSE <<>>)

\* A graph the backend can hold: components P, dependency relation E over P
GraphStore(P, E) ==
    [c \in P |-> MkComponent(c, "healthy",
                             IdList({d \in P : <<c, d>> \in E}),
                             IdList({d \in P : <<d, c>> \in E}),
                             <<>>, 0)]

\* The backend rejects self-references, so its graphs have none
SymmetricStores ==
    {GraphStore(P, E) : P \in SUBSET CompIds,
                        E \in SUBSET {e \in CompIds \X CompIds : e[1] # e[2]}}

\* getComponents() responses: the components of a backend graph, as an array
FetchInputs ==
    {[i \in 1..Len(IdList(DOMAIN g)) |-> g[IdList(DOMAIN g)[i]]] : g \in SymmetricStores}
        \cup {<<MkComponent("c1", "healthy", <<>>, <<>>, <<>>, 0),
                MkComponent("c1", "critical", <<>>, <<>>, <<>>, 0)>>}

RECURSIVE ReduceById(_, _)
ReduceById(acc, payload) ==
    IF payload = <<>> THEN acc
    ELSE ReduceById(Put(acc, Head(payload).component_id, Head(payload)), Tail(payload))

fetchComponentsSuccess ==
    \E payload \in FetchInputs :
        /\ infraLoading' = FALSE
        /\ components' = ReduceById(<<>>, payload)
        /\ UNCHANGED <<selectedComponent, alertVars, predVars, pageVars, now>>

selectComponent ==
    \E id \in CompIds :
        /\ selectedComponent' = id
        /\ UNCHANGED <<components, infraLoading, alertVars, predVars, pageVars, now>>

clearSelectedComponent ==
    /\ selectedComponent' = Null
    /\ UNCHANGED <<components, infraLoading, alertVars, predVars, pageVars, now>>

SetStatusReplacing(cs, componentId, status, t) ==
    IF componentId \in DOMAIN cs
    THEN [cs EXCEPT ![componentId] = MkComponent(componentId, status, <<>>, <<>>, <<>>, t)]
    ELSE cs

SetStatus(cs, componentId, status, t) ==
    IF componentId \in DOMAIN cs
    THEN [cs EXCEPT ![componentId].status = status, ![componentId].updated_at = t]
    ELSE cs

updateComponentStatus ==
    \E componentId \in CompIds, status \in StatusInputs :
        /\ components' = SetStatus(components, componentId, status, now)
        /\ UNCHANGED <<selectedComponent, infraLoading, alertVars, predVars, pageVars, now>>

UpsertMisfiled(cs, c) == Put(cs, CHOOSE k \in CompIds : k # c.component_id, c)

Upsert(cs, c) == Put(cs, c.component_id, c)

addComponent ==
    \E c \in ComponentInputs :
        /\ components' = Upsert(components, c)
        /\ UNCHANGED <<selectedComponent, infraLoading, alertVars, predVars, pageVars, now>>

updateComponent ==
    \E c \in ComponentInputs :
        /\ components' = Upsert(components, c)
        /\ UNCHANGED <<selectedComponent, infraLoading, alertVars, predVars, pageVars, now>>

deleteComponent ==
    \E id \in CompIds :
        /\ components' = Drop(components, id)
        /\ selectedComponent' = IF selectedComponent = id THEN Null ELSE selectedComponent
        /\ UNCHANGED <<infraLoading, alertVars, predVars, pageVars, now>>

AddDependencyUnchecked(cs, dependentId, dependencyId, t) ==
    IF dependentId \in DOMAIN cs
    THEN [cs EXCEPT ![dependentId].dependencies = Append(@, dependencyId),
                    ![dependentId].updated_at = t]
    ELSE cs

AddDependency(cs, dependentId, dependencyId, t) ==
    IF dependentId \in DOMAIN cs /\ ~Includes(cs[dependentId].dependencies, dependencyId)
    THEN [cs EXCEPT ![dependentId].dependencies = Append(@, dependencyId),
                    ![dependentId].updated_at = t]
    ELSE cs

AddDependentForgotten(cs, dependentId, dependencyId, t) == cs

AddDependent(cs, dependentId, dependencyId, t) ==
    IF dependencyId \in DOMAIN cs /\ ~Includes(cs[dependencyId].dependents, dependentId)
    THEN [cs EXCEPT ![dependencyId].dependents = Append(@, dependentId),
                    ![dependencyId].updated_at = t]
    ELSE cs

AddRelationship(cs, dependentId, dependencyId, t) ==
    AddDependent(AddDependency(cs, dependentId, dependencyId, t), dependentId, dependencyId, t)

addComponentRelationship ==
    \E dependentId \in CompIds, dependencyId \in CompIds :
        /\ components' = AddRelationship(components, dependentId, dependencyId, now)
        /\ UNCHANGED <<selectedComponent, infraLoading, alertVars, predVars, pageVars, now>>

RemoveDependency(cs, dependentId, dependencyId, t) ==
    IF dependentId \in DOMAIN cs
    THEN [cs EXCEPT ![dependentId].dependencies = Without(@, dependencyId),
                    ![dependentId].updated_at = t]
    ELSE cs

RemoveDependent(cs, dependentId, dependencyId, t) ==
    IF dependencyId \in DOMAIN cs
    THEN [cs EXCEPT ![dependencyId].dependents = Without(@, dependentId),
                    ![dependencyId].updated_at = t]
    ELSE cs

RemoveRelationship(cs, dependentId, dependencyId, t) ==
    RemoveDependent(RemoveDependency(cs, dependentId, dependencyId, t), dependentId, dependencyId, t)

removeComponentRelationship ==
    \E dependentId \in CompIds, dependencyId \in CompIds :
        /\ components' = RemoveRelationship(components, dependentId, dependencyId, now)
        /\ UNCHANGED <<selectedComponent, infraLoading, alertVars, predVars, pageVars, now>>

AddAlert(cs, componentId, alertId, t) ==
    IF componentId \in DOMAIN cs /\ ~Includes(cs[componentId].active_alerts, alertId)
    THEN [cs EXCEPT ![componentId].active_alerts = Append(@, alertId),
                    ![componentId].updated_at = t]
    ELSE cs

addAlertToComponent ==
    \E componentId \in CompIds, alertId \in AlertIds :
        /\ components' = AddAlert(components, componentId, alertId, now)
        /\ UNCHANGED <<selectedComponent, infraLoading, alertVars, predVars, pageVars, now>>

RemoveAlert(cs, componentId, alertId, t) ==
    IF componentId \in DOMAIN cs
    THEN [cs EXCEPT ![componentId].active_alerts = Without(@, alertId),
                    ![componentId].updated_at = t]
    ELSE cs

removeAlertFromComponent ==
    \E componentId \in CompIds, alertId \in AlertIds :
        /\ components' = RemoveAlert(components, componentId, alertId, now)
        /\ UNCHANGED <<selectedComponent, infraLoading, alertVars, predVars, pageVars, now>>

----------------------------------------------------------------------------
(* alertsSlice *)

NoteInputs == {Undefined, "", "restarted"}

Truthy(v) == v # Undefined /\ v # ""

\* affected_components reported for each alert
AffectedOf(id) == IF id = "a1" THEN <<"c1">> ELSE <<"c1", "c2">>

MkAlert(id, st, rt) ==
    [alert_id |-> id, status |-> st, affected_components |-> AffectedOf(id),
     resolution_time |-> rt, resolution_notes |-> Undefined, update_history |-> <<>>]

AlertInputs ==
    {MkAlert(id, st, rt) : id \in AlertIds, st \in AlertStatus, rt \in {NoTime, now}}

\* alert_id identifies an alert: ingestion delivers each identifier once
NewAlertInputs == {a \in AlertInputs : \A i \in 1..Len(alerts) : alerts[i].alert_id # a.alert_id}

AlertListInputs ==
    {<<>>,
     <<MkAlert("a1", "new", NoTime)>>,
     <<MkAlert("a2", "new", NoTime), MkAlert("a1", "acknowledged", NoTime)>>,
     <<MkAlert("a1", "resolved", 0), MkAlert("a2", "in_progress", NoTime)>>}

\* {...undefined}: an object with no fields
EmptyObject ==
    [alert_id |-> Undefined, status |-> Undefined, affected_components |-> <<>>,
     resolution_time |-> NoTime, resolution_notes |-> Undefined,
     update_history |-> <<>>]

\* Array.prototype.findIndex on alert_id; 0 stands for -1 / not found
FindAlert(as, alertId) ==
    IF \E i \in 1..Len(as) : as[i].alert_id = alertId
    THEN CHOOSE i \in 1..Len(as) :
            /\ as[i].alert_id = alertId
            /\ \A j \in 1..(i - 1) : as[j].alert_id # alertId
    ELSE 0

fetchAlertsSuccess ==
    \E payload \in AlertListInputs :
        /\ alerts' = payload
        /\ alertsLoading' = FALSE
        /\ alertAction' = "fetchAlertsSuccess"
        /\ UNCHANGED <<selectedAlert, infraVars, predVars, pageVars, now>>

\* The reducer selectAlert applied to the alerts slice
SelectAlertReduced(alertId) ==
    /\ selectedAlert' = IF FindAlert(alerts, alertId) # 0
                        THEN Some(alerts[FindAlert(alerts, alertId)]) ELSE None
    /\ alertAction' = "selectAlert"
    /\ UNCHANGED <<alerts, alertsLoading>>

selectAlert ==
    \E alertId \in AlertIds :
        /\ SelectAlertReduced(alertId)
        /\ UNCHANGED <<infraVars, predVars, pageVars, now>>

clearSelectedAlert ==
    /\ selectedAlert' = None
    /\ alertAction' = "clearSelectedAlert"
    /\ UNCHANGED <<alerts, alertsLoading, infraVars, predVars, pageVars, now>>

ResolutionTimeOverwritten(a, status, t) ==
    IF status = "resolved" THEN t ELSE a.resolution_time

ResolutionTime(a, status, t) ==
    IF status = "resolved" /\ a.resolution_time = NoTime THEN t ELSE a.resolution_time

StatusUpdated(a, status, notes, t) ==
    [a EXCEPT !.status = status,
              !.resolution_notes = IF Truthy(notes) THEN notes ELSE @,
              !.resolution_time = ResolutionTime(a, status, t)]

StatusUpdatedAtHead(as, alertId, status, notes, t) ==
    IF as = <<>> THEN as ELSE [as EXCEPT ![1] = StatusUpdated(@, status, notes, t)]

StatusUpdatedIn(as, alertId, status, notes, t) ==
    IF FindAlert(as, alertId) # 0
    THEN [as EXCEPT ![FindAlert(as, alertId)] = StatusUpdated(@, status, notes, t)]
    ELSE as

\* The reducer updateAlertStatus applied to the alerts slice
UpdateAlertStatusReduced(alertId, status, notes) ==
    LET i == FindAlert(alerts, alertId) IN
    /\ alerts' = StatusUpdatedIn(alerts, alertId, status, notes, now)
    /\ selectedAlert' = IF selectedAlert # None /\ selectedAlert[1].alert_id = alertId
                        THEN Some(IF i # 0 THEN alerts'[i] ELSE EmptyObject)
                        ELSE selectedAlert
    /\ alertAction' = "updateAlertStatus"
    /\ UNCHANGED alertsLoading

updateAlertStatus ==
    \E alertId \in AlertIds, status \in AlertStatus, notes \in NoteInputs :
        /\ UpdateAlertStatusReduced(alertId, status, notes)
        /\ UNCHANGED <<infraVars, predVars, pageVars, now>>

PushAlert(as, a) == Append(as, a)

UnshiftAlert(as, a) == <<a>> \o as

addNewAlert ==
    \E a \in NewAlertInputs :
        /\ alerts' = UnshiftAlert(alerts, a)
        /\ alertAction' = "addNewAlert"
        /\ UNCHANGED <<selectedAlert, alertsLoading, infraVars, predVars, pageVars, now>>

updateAlert ==
    \E a \in AlertInputs :
        LET i == FindAlert(alerts, a.alert_id) IN
        /\ alerts' = IF i # 0 THEN [alerts EXCEPT ![i] = a] ELSE alerts
        /\ selectedAlert' = IF i # 0 /\ selectedAlert # None
                                     /\ selectedAlert[1].alert_id = a.alert_id
                            THEN Some(a) ELSE selectedAlert
        /\ alertAction' = "updateAlert"
        /\ UNCHANGED <<alertsLoading, infraVars, predVars, pageVars, now>>

deleteAlert ==
    \E alertId \in AlertIds :
        /\ alerts' = SelectSeq(alerts, LAMBDA a : a.alert_id # alertId)
        /\ selectedAlert' = IF selectedAlert # None /\ selectedAlert[1].alert_id = alertId
                            THEN None ELSE selectedAlert
        /\ alertAction' = "deleteAlert"
        /\ UNCHANGED <<alertsLoading, infraVars, predVars, pageVars, now>>

----------------------------------------------------------------------------
(* Alerts page *)

MaxStatusRequests == 1

\* The details dialog is rendered for a selected alert and shown while detailsOpen
DialogShown == selectedAlert # None /\ detailsOpen

\* The statuses the buttons of the dialog request, by the selected alert's status
DialogOffers(status) ==
    (IF status = "new" THEN {"acknowledged"} ELSE {})
        \cup (IF status = "acknowledged" THEN {"in_progress"} ELSE {})
        \cup (IF status \in {"acknowledged", "in_progress"} THEN {"resolved"} ELSE {})

DialogNotes(status) == IF status = "resolved" THEN "Issue resolved" ELSE Undefined

handleViewAlert ==
    \E i \in 1..Len(alerts) :
        /\ SelectAlertReduced(alerts[i].alert_id)
        /\ detailsOpen' = TRUE
        /\ UNCHANGED <<statusRequests, offAlertsPage>>

closeDetails ==
    /\ DialogShown
    /\ detailsOpen' = FALSE
    /\ UNCHANGED <<statusRequests, alertVars, offAlertsPage>>

handleUpdateStatusOptimistic ==
    /\ DialogShown
    /\ Len(statusRequests) < MaxStatusRequests
    /\ \E status \in DialogOffers(selectedAlert[1].status) :
           /\ statusRequests' = Append(statusRequests,
                  [alertId |-> selectedAlert[1].alert_id, status |-> status,
                   notes |-> DialogNotes(status)])
           /\ UpdateAlertStatusReduced(selectedAlert[1].alert_id, status, DialogNotes(status))
    /\ UNCHANGED <<detailsOpen, offAlertsPage>>

\* handleUpdateStatus up to its await: the request leaves for the backend
handleUpdateStatus ==
    /\ DialogShown
    /\ Len(statusRequests) < MaxStatusRequests
    /\ \E status \in DialogOffers(selectedAlert[1].status) :
           statusRequests' = Append(statusRequests,
               [alertId |-> selectedAlert[1].alert_id, status |-> status,
                notes |-> DialogNotes(status)])
    /\ UNCHANGED <<detailsOpen, alertVars, offAlertsPage>>

RemoveAt(s, i) == SubSeq(s, 1, i - 1) \o SubSeq(s, i + 1, Len(s))

\* handleUpdateStatus after its await, the backend having accepted the update
updateAlertAccepted ==
    \E i \in 1..Len(statusRequests) :
        /\ UpdateAlertStatusReduced(statusRequests[i].alertId, statusRequests[i].status,
                                    statusRequests[i].notes)
        /\ detailsOpen' = FALSE
        /\ statusRequests' = RemoveAt(statusRequests, i)
        /\ UNCHANGED <<offAlertsPage>>

\* handleUpdateStatus after its await, the call having thrown: console.error only
updateAlertRejected ==
    \E i \in 1..Len(statusRequests) :
        /\ statusRequests' = RemoveAt(statusRequests, i)
        /\ UNCHANGED <<detailsOpen, alertVars, offAlertsPage>>

----------------------------------------------------------------------------
(* predictionsSlice *)

RiskInputs == {10, 90}

MkPrediction(id, risk) == [deployment_id |-> id, risk_score |-> risk]

PredictionInputs == {MkPrediction(id, r) : id \in DeployIds, r \in RiskInputs}

PredictionListInputs ==
    {<<>>, <<MkPrediction("d1", 10)>>, <<MkPrediction("d2", 90), MkPrediction("d1", 10)>>}

FindPrediction(ps, id) ==
    IF \E i \in 1..Len(ps) : ps[i].deployment_id = id
    THEN CHOOSE i \in 1..Len(ps) :
            /\ ps[i].deployment_id = id
            /\ \A j \in 1..(i - 1) : ps[j].deployment_id # id
    ELSE 0

fetchPredictionsSuccess ==
    \E payload \in PredictionListInputs :
        /\ predictions' = payload
        /\ predLoading' = FALSE
        /\ predAction' = "fetchPredictionsSuccess"
        /\ UNCHANGED <<selectedPrediction, infraVars, alertVars, pageVars, now>>

selectPrediction ==
    \E id \in DeployIds :
        /\ selectedPrediction' = IF FindPrediction(predictions, id) # 0
                                 THEN Some(predictions[FindPrediction(predictions, id)]) ELSE None
        /\ predAction' = "selectPrediction"
        /\ UNCHANGED <<predictions, predLoading, infraVars, alertVars, pageVars, now>>

clearSelectedPrediction ==
    /\ selectedPrediction' = None
    /\ predAction' = "clearSelectedPrediction"
    /\ UNCHANGED <<predictions, predLoading, infraVars, alertVars, pageVars, now>>

UnshiftReplacingHead(ps, p) == IF ps = <<>> THEN <<p>> ELSE <<p>> \o Tail(ps)

Unshift(ps, p) == <<p>> \o ps

addPrediction ==
    \E p \in PredictionInputs :
        /\ Len(predictions) < MaxPredictions
        /\ predictions' = Unshift(predictions, p)
        /\ predAction' = "addPrediction"
        /\ UNCHANGED <<selectedPrediction, predLoading, infraVars, alertVars, pageVars, now>>

updatePrediction ==
    \E p \in PredictionInputs :
        LET i == FindPrediction(predictions, p.deployment_id) IN
        /\ predictions' = IF i # 0 THEN [predictions EXCEPT ![i] = p] ELSE predictions
        /\ selectedPrediction' = IF i # 0 /\ selectedPrediction # None
                                          /\ selectedPrediction[1].deployment_id = p.deployment_id
                                 THEN Some(p) ELSE selectedPrediction
        /\ predAction' = "updatePrediction"
        /\ UNCHANGED <<predLoading, infraVars, alertVars, pageVars, now>>

----------------------------------------------------------------------------
(* Initial states *)

\* Every slice but infrastructure.components in its initialState, every page's local
\* state as useState initialises it
InitSlices ==
    /\ selectedComponent = Null
    /\ infraLoading = FALSE
    /\ alerts = <<>>
    /\ selectedAlert = None
    /\ alertsLoading = FALSE
    /\ alertAction = "@@INIT"
    /\ predictions = <<>>
    /\ selectedPrediction = None
    /\ predLoading = FALSE
    /\ predAction = "@@INIT"
    /\ detailsOpen = FALSE
    /\ statusRequests = <<>>
    /\ engineQuery = [kind |-> "none", componentId |-> "", componentIds |-> <<>>]
    /\ engineAnswer = [ok |-> FALSE, error |-> "none"]
    /\ impactAnalysis = None
    /\ failureDomains = None
    /\ healthStatus = None
    /\ analysisLoading = FALSE
    /\ analysisError = Null
    /\ selectedComponentId = ""
    /\ selectedComponents = <<>>
    /\ analysisType = "impact"
    /\ analysisDialogOpen = FALSE
    /\ tabValue = 0
    /\ analysisRequests = <<>>
    /\ optimalWindows = None
    /\ predError = Null
    /\ predictionsObject = None
    /\ selectedComponentIds = <<>>
    /\ newDeploymentDialogOpen = FALSE
    /\ predRequests = <<>>
    /\ infraError = Null
    /\ alertsError = Null
    /\ infraDetailsOpen = FALSE
    /\ affectedComponents = <<>>
    /\ loadingAffected = FALSE
    /\ affectedRequests = <<>>
    /\ componentRequests = <<>>
    /\ notifications = <<>>
    /\ notified = 0
    /\ now = 0

\* No backend graph is consulted
InitOther ==
    /\ InitSlices
    /\ registry = <<>>
    /\ route = "/"

\* infrastructureSlice initialState
Init ==
    /\ components = <<>>
    /\ InitOther

NextInfra ==
    \/ fetchComponentsSuccess
    \/ selectComponent
    \/ clearSelectedComponent
    \/ updateComponentStatus
    \/ addComponent
    \/ updateComponent
    \/ deleteComponent
    \/ addComponentRelationship
    \/ removeComponentRelationship
    \/ Tick

SpecInfra == Init /\ [][NextInfra]_vars

\* A store loaded from a backend graph, then edited edge by edge
InitEdges ==
    /\ components \in SymmetricStores
    /\ InitOther

NextEdges ==
    \/ addComponentRelationship
    \/ removeComponentRelationship
    \/ Tick

SpecEdges == InitEdges /\ [][NextEdges]_vars

\* The alert list and its status transitions
NextAlerts ==
    \/ fetchAlertsSuccess
    \/ updateAlertStatus
    \/ addNewAlert
    \/ updateAlert
    \/ deleteAlert
    \/ Tick

SpecAlerts == Init /\ [][NextAlerts]_vars

\* Alerts recorded against a loaded component store
InitCorrelate ==
    /\ components = GraphStore(CompIds, {})
    /\ InitOther

NextCorrelate ==
    \/ addNewAlert
    \/ updateAlertStatus
    \/ addAlertToComponent
    \/ removeAlertFromComponent

SpecCorrelate == InitCorrelate /\ [][NextCorrelate]_vars

NextPredictions ==
    \/ fetchPredictionsSuccess
    \/ selectPrediction
    \/ clearSelectedPrediction
    \/ addPrediction
    \/ updatePrediction

SpecPredictions == Init /\ [][NextPredictions]_vars

----------------------------------------------------------------------------
(* Properties of the component graph *)

Present(cs) == DOMAIN cs

HasDependency(cs, a, b) == a \in Present(cs) /\ Includes(cs[a].dependencies, b)

HasDependent(cs, b, a) == b \in Present(cs) /\ Includes(cs[b].dependents, a)

\* C1: edge symmetry. After any sequence of addComponentRelationship and
\* removeComponentRelationship on a symmetric store, for all components A and
\* B in the store, B is in A.dependencies iff A is in B.dependents.
EdgeSymmetry ==
    \A a \in Present(components), b \in Present(components) :
        Includes(components[a].dependencies, b) <=> Includes(components[b].dependents, a)

\* An edge between two distinct stored components, written by the reducer after
\* the clock moved, with the reverse side in place
EdgeSymmetryWitness ==
    \E a \in Present(components), b \in Present(components) :
        /\ a # b
        /\ Includes(components[a].dependencies, b)
        /\ Includes(components[b].dependents, a)
        /\ components[a].updated_at > 0
        /\ components[b].updated_at > 0

\* C2: edge mutation is all-or-nothing. In every step, for every pair of
\* identifiers, the dependent's dependencies entry and the dependency's
\* dependents entry change together; with an endpoint absent nothing changes.
EdgeMutationAtomic ==
    [][\A a \in CompIds, b \in CompIds :
          (HasDependency(components, a, b) # HasDependency(components', a, b))
              <=> (HasDependent(components, b, a) # HasDependent(components', b, a))]_vars

\* C3: no dangling edges after removal. When a component leaves the store, no
\* remaining component lists its identifier in dependencies or dependents.
NoDanglingEdgesAfterDelete ==
    [][\A id \in Present(components) \ Present(components') :
          \A c \in Present(components') :
              /\ ~Includes(components'[c].dependencies, id)
              /\ ~Includes(components'[c].dependents, id)]_vars

\* C8: self-reference is rejected. No state reached through
\* addComponentRelationship has a component listing its own identifier in its
\* dependencies or dependents.
NoSelfReference ==
    \A c \in Present(components) :
        /\ ~Includes(components[c].dependencies, c)
        /\ ~Includes(components[c].dependents, c)

\* C10: identifiers are immutable and unique. Every key k of components maps to
\* a component whose component_id is k, and no step changes the component_id
\* stored under a key.
KeysAreIds == \A k \in Present(components) : components[k].component_id = k

IdentifiersImmutable ==
    /\ []KeysAreIds
    /\ [][\A k \in Present(components) \cap Present(components') :
             components'[k].component_id = components[k].component_id]_vars

\* Both components stored, one of them by addComponent/updateComponent with an
\* edge list only those payloads carry, and a status set afterwards
IdentifiersWitness ==
    /\ Present(components) = CompIds
    /\ \E k \in CompIds : components[k].dependents = <<"c1", "c2">>
    /\ \E k \in CompIds : components[k].status = "critical"

----------------------------------------------------------------------------
(* Properties of the alert list *)

Listed(as, id) == FindAlert(as, id) # 0

AlertOf(as, id) == as[FindAlert(as, id)]

\* Position in new -> acknowledged -> in_progress -> resolved -> closed
Rank(st) ==
    CASE st = "new" -> 1
      [] st = "acknowledged" -> 2
      [] st = "in_progress" -> 3
      [] st = "resolved" -> 4
      [] st = "closed" -> 5

\* C4: alert transition legality. updateAlertStatus never moves a listed alert
\* to an earlier, non-closed status: such a request leaves the alert as it was.
BackwardTransitionRejected ==
    [][alertAction' = "updateAlertStatus" =>
          \A id \in AlertIds :
              (Listed(alerts, id) /\ Listed(alerts', id)) =>
                  ~(Rank(AlertOf(alerts', id).status) < Rank(AlertOf(alerts, id).status))]_vars

\* C5 (as stated): resolution_time is set exactly once. A status change that
\* first moves an alert to resolved sets resolution_time, and no later status
\* change, by updateAlertStatus or updateAlert, alters a resolution_time that is set.
ResolutionTimeSetOnce ==
    [][alertAction' \in {"updateAlertStatus", "updateAlert"} =>
          \A id \in AlertIds :
              (Listed(alerts, id) /\ Listed(alerts', id)) =>
                  LET a == AlertOf(alerts, id)
                      b == AlertOf(alerts', id)
                  IN /\ a.resolution_time # NoTime => b.resolution_time = a.resolution_time
                     /\ (a.status # "resolved" /\ b.status = "resolved")
                            => b.resolution_time # NoTime]_vars

\* C5 (amended): updateAlertStatus sets resolution_time, to the current time,
\* when it moves an alert without one to resolved; it never alters a
\* resolution_time that is set, and sets none on any other status.
ResolutionTimeSetOnceByStatusUpdate ==
    [][alertAction' = "updateAlertStatus" =>
          \A id \in AlertIds :
              (Listed(alerts, id) /\ Listed(alerts', id)) =>
                  LET a == AlertOf(alerts, id)
                      b == AlertOf(alerts', id)
                  IN /\ a.resolution_time # NoTime => b.resolution_time = a.resolution_time
                     /\ (a.resolution_time = NoTime /\ a.status # "resolved"
                            /\ b.status = "resolved") => b.resolution_time = now
                     /\ (a.resolution_time = NoTime /\ b.status # "resolved")
                            => b.resolution_time = NoTime]_vars

\* An alert resolved at time 0 that updateAlertStatus has since moved, at time
\* 1, to resolved again: it still carries the first resolution_time
ResolutionTimeWitness ==
    /\ alertAction = "updateAlertStatus"
    /\ now = 1
    /\ \E i \in 1..Len(alerts) :
          /\ alerts[i].status = "resolved"
          /\ alerts[i].resolution_time = 0
          /\ alerts[i].resolution_notes = "restarted"

\* C6: append-only history. Every status transition applied by
\* updateAlertStatus appends exactly one entry to the alert's update_history
\* and keeps the entries already there.
HistoryAppendedOnTransition ==
    [][alertAction' = "updateAlertStatus" =>
          \A id \in AlertIds :
              (Listed(alerts, id) /\ Listed(alerts', id)
                  /\ AlertOf(alerts', id).status # AlertOf(alerts, id).status) =>
                  LET h == AlertOf(alerts, id).update_history
                      g == AlertOf(alerts', id).update_history
                  IN /\ Len(g) = Len(h) + 1
                     /\ SubSeq(g, 1, Len(h)) = h]_vars

\* C7: the active-alert reverse index stays consistent. After an alert is
\* recorded and after every status update, a component's active_alerts holds
\* an alert's identifier exactly when the component is among the alert's
\* affected components and the alert is listed and not resolved.
IndexConsistent(cs, as) ==
    \A c \in Present(cs), id \in AlertIds :
        Includes(cs[c].active_alerts, id) <=>
            /\ Listed(as, id)
            /\ Includes(AlertOf(as, id).affected_components, c)
            /\ AlertOf(as, id).status \notin {"resolved", "closed"}

ActiveAlertIndexConsistent ==
    [][alerts' # alerts => IndexConsistent(components', alerts')]_vars

----------------------------------------------------------------------------
(* Properties of the prediction list *)

\* The k-th entry counted from the end of the list
FromEnd(ps, k) == ps[Len(ps) - k + 1]

\* C9 (as stated): a DeploymentPrediction is immutable after creation. Neither
\* addPrediction nor updatePrediction changes or drops an entry already in
\* state.predictions.
PredictionsImmutable ==
    [][predAction' \in {"addPrediction", "updatePrediction"} =>
          /\ Len(predictions') >= Len(predictions)
          /\ \A k \in 1..Len(predictions) :
                FromEnd(predictions', k) = FromEnd(predictions, k)]_vars

\* C9 (amended): addPrediction puts the new prediction in front and leaves
\* every entry already listed unchanged; updatePrediction changes at most the
\* first entry carrying the payload's deployment_id, in place, and that entry
\* keeps its deployment_id.
PredictionsChangeOnlyByUpdate ==
    [][/\ predAction' = "addPrediction" =>
             /\ Len(predictions') = Len(predictions) + 1
             /\ \A k \in 1..Len(predictions) :
                   FromEnd(predictions', k) = FromEnd(predictions, k)
       /\ predAction' = "updatePrediction" =>
             /\ Len(predictions') = Len(predictions)
             /\ \A i \in 1..Len(predictions) :
                   predictions'[i] # predictions[i] =>
                       /\ predictions'[i].deployment_id = predictions[i].deployment_id
                       /\ i = FindPrediction(predictions, predictions[i].deployment_id)]_vars

\* Changed inputs for a deployment already listed: addPrediction has put a
\* second entry with the same deployment_id and another score in front
PredictionsWitness ==
    /\ predAction = "addPrediction"
    /\ Len(predictions) = 2
    /\ predictions[1].deployment_id = predictions[2].deployment_id
    /\ predictions[1].risk_score # predictions[2].risk_score

----------------------------------------------------------------------------
(* Status updates over backend graphs that carry active alerts *)

AlertedStores ==
    SymmetricStores \cup {AddAlert(g, "c1", "a1", 0) : g \in SymmetricStores}

InitStatus ==
    /\ InitOther
    /\ components \in AlertedStores

NextStatus ==
    \/ updateComponentStatus
    \/ selectComponent
    \/ clearSelectedComponent
    \/ Tick

SpecStatus == InitStatus /\ [][NextStatus]_vars

\* The component a step changed differs from its old value in status and updated_at only
OnlyStatusTouched(old, new) ==
    new = [old EXCEPT !.status = new.status, !.updated_at = new.updated_at]

\* C11: updateComponentStatus(componentId, status) changes only status and
\* updated_at of that component: its dependencies, dependents and active_alerts,
\* every other component and selectedComponent stay as they were, and for a
\* componentId that is not in the store the whole state is unchanged.
StatusUpdateFrame ==
    /\ [](\A id \in CompIds \ Present(components) : \A st \in ComponentStatus :
            SetStatus(components, id, st, now) = components)
    /\ [][components' # components =>
            /\ Present(components') = Present(components)
            /\ selectedComponent' = selectedComponent
            /\ \E id \in Present(components) :
                   /\ OnlyStatusTouched(components[id], components'[id])
                   /\ \A other \in Present(components) \ {id} :
                          components'[other] = components[other]]_vars

StatusUpdateWitness ==
    /\ selectedComponent = "c2"
    /\ \E id \in Present(components) :
           /\ components[id].status = "critical"
           /\ components[id].updated_at = MaxTime
           /\ components[id].dependencies # <<>>
           /\ components[id].active_alerts # <<>>

----------------------------------------------------------------------------
(* Components written one at a time into an empty store *)

NextUpsert ==
    \/ addComponent
    \/ updateComponent
    \/ Tick

SpecUpsert == Init /\ [][NextUpsert]_vars

\* C12: addComponent and updateComponent refuse a component whose dependencies
\* name an identifier that is not in the store, so every identifier in any
\* stored component's dependencies names a component present in the store.
DependenciesResolve ==
    \A k \in Present(components) :
        \A d \in Elems(components[k].dependencies) : d \in Present(components)

----------------------------------------------------------------------------
(* The Alerts page over fetched alert lists *)

NextAlertsPage ==
    \/ fetchAlertsSuccess
    \/ handleViewAlert
    \/ closeDetails
    \/ handleUpdateStatus
    \/ updateAlertAccepted
    \/ updateAlertRejected
    \/ Tick

SpecAlertsPage == Init /\ [][NextAlertsPage]_vars

\* The alert state machine: the next state of the chain, or closed
LegalTransition(from, to) == to = "closed" \/ Rank(to) = Rank(from) + 1

\* C13: every status change the details dialog can issue is a legal transition
\* of the alert state machine (the next state of new, acknowledged, in_progress,
\* resolved, closed, or closed), and from every status the dialog offers the
\* direct transition to closed.
DialogTransitionsLegal ==
    DialogShown =>
        /\ \A to \in DialogOffers(selectedAlert[1].status) :
               LegalTransition(selectedAlert[1].status, to)
        /\ "closed" \in DialogOffers(selectedAlert[1].status)

----------------------------------------------------------------------------
(* The analysis engine behind analysisApi: impact analysis by breadth-first *)
(* search and failure domains by union-find, over a snapshot of the graph  *)

EngineIds == {"c1", "c2", "c3"}

EngineOrder == <<"c1", "c2", "c3">>

\* The identifiers of S in insertion order
OrderedIds(S) == SelectSeq(EngineOrder, LAMBDA x : x \in S)

\* A snapshot: components P with the dependency relation E kept on both sides
Snapshot(P, E) ==
    [c \in P |-> MkComponent(c, "healthy",
                             OrderedIds({d \in P : <<c, d>> \in E}),
                             OrderedIds({d \in P : <<d, c>> \in E}),
                             <<>>, 0)]

Snapshots ==
    {Snapshot(P, E) : P \in SUBSET EngineIds,
                      E \in SUBSET {e \in EngineIds \X EngineIds : e[1] # e[2]}}

\* The entries of s that are not in seen, each once, in their order in s
RECURSIVE Fresh(_, _)
Fresh(s, seen) ==
    IF s = <<>> THEN <<>>
    ELSE IF Includes(seen, Head(s)) THEN Fresh(Tail(s), seen)
         ELSE <<Head(s)>> \o Fresh(Tail(s), Append(seen, Head(s)))

Adjacent(g, u) == g[u].dependencies \o g[u].dependents

\* Breadth-first search: queue of discovered nodes to expand, visited in discovery order
RECURSIVE Bfs(_, _, _)
Bfs(g, queue, visited) ==
    IF queue = <<>> THEN visited
    ELSE LET found == Fresh(Adjacent(g, Head(queue)), visited)
         IN  Bfs(g, Tail(queue) \o found, visited \o found)

Max(a, b) == IF a >= b THEN a ELSE b

Min(a, b) == IF a <= b THEN a ELSE b

\* affected_count / max(total_component_count - 1, 1) clamped to [0,1], in percent
ImpactScore(affected, total) == Min(100, (affected * 100) \div Max(total - 1, 1))

NotFound == [ok |-> FALSE, error |-> "NotFound"]

Ok(result) == [ok |-> TRUE, result |-> result]

AnalysisResult(source, affected, domains, score) ==
    [source_component |-> source, affected_components |-> affected,
     failure_domains |-> domains, impact_score |-> score]

GetAffectedComponentsWithSource(g, componentId) ==
    IF componentId \notin DOMAIN g THEN NotFound
    ELSE LET visited == Bfs(g, <<componentId>>, <<componentId>>)
         IN  Ok(AnalysisResult(componentId, visited, <<>>,
                               ImpactScore(Len(visited), Cardinality(DOMAIN g))))

GetAffectedComponents(g, componentId) ==
    IF componentId \notin DOMAIN g THEN NotFound
    ELSE LET visited == Bfs(g, <<componentId>>, <<componentId>>)
         IN  Ok(AnalysisResult(componentId, Tail(visited), <<>>,
                               ImpactScore(Len(visited) - 1, Cardinality(DOMAIN g))))

\* Disjoint sets: parent pointers, a root points to itself
RECURSIVE Find(_, _)
Find(parent, x) == IF parent[x] = x THEN x ELSE Find(parent, parent[x])

UnionForgotten(parent, a, b) == parent

Union(parent, a, b) ==
    IF Find(parent, a) = Find(parent, b) THEN parent
    ELSE [parent EXCEPT ![Find(parent, b)] = Find(parent, a)]

\* The dependency edges of the members of ids, both endpoints in ids
RECURSIVE EdgesWithin(_, _, _)
EdgesWithin(g, rest, ids) ==
    IF rest = <<>> THEN <<>>
    ELSE LET u == Head(rest)
             ds == SelectSeq(g[u].dependencies, LAMBDA d : Includes(ids, d))
         IN  [i \in 1..Len(ds) |-> <<u, ds[i]>>] \o EdgesWithin(g, Tail(rest), ids)

RECURSIVE UnionAll(_, _)
UnionAll(parent, edges) ==
    IF edges = <<>> THEN parent
    ELSE UnionAll(Union(parent, Head(edges)[1], Head(edges)[2]), Tail(edges))

\* One domain per root, in the order of its first member; members in request order
RECURSIVE Domains(_, _, _)
Domains(parent, rest, ids) ==
    IF rest = <<>> THEN <<>>
    ELSE LET r == Find(parent, Head(rest))
             later == SelectSeq(Tail(rest), LAMBDA x : Find(parent, x) # r)
         IN  <<SelectSeq(ids, LAMBDA x : Find(parent, x) = r)>> \o Domains(parent, later, ids)

GetFailureDomains(g, componentIds) ==
    LET ids == SelectSeq(Fresh(componentIds, <<>>), LAMBDA x : x \in DOMAIN g)
        parent == UnionAll([x \in Elems(ids) |-> x], EdgesWithin(g, ids, ids))
    IN  Ok(AnalysisResult("", <<>>, Domains(parent, ids, ids), 0))

\* Impact analysis seeded from every critical component
GetHealthStatus(g) ==
    LET seeds == SelectSeq(OrderedIds(DOMAIN g), LAMBDA x : g[x].status = "critical")
        visited == Bfs(g, seeds, seeds)
    IN  Ok(AnalysisResult("", SubSeq(visited, Len(seeds) + 1, Len(visited)), <<>>,
                          ImpactScore(Len(visited) - Len(seeds), Cardinality(DOMAIN g))))

----------------------------------------------------------------------------
(* analysisSlice *)

fetchAnalysisStartKeepingError ==
    /\ analysisLoading' = TRUE
    /\ UNCHANGED <<impactAnalysis, failureDomains, healthStatus, analysisError>>

fetchAnalysisStart ==
    /\ analysisLoading' = TRUE
    /\ analysisError' = Null
    /\ UNCHANGED <<impactAnalysis, failureDomains, healthStatus>>

fetchImpactAnalysisSuccess(payload) ==
    /\ impactAnalysis' = Some(payload)
    /\ analysisLoading' = FALSE
    /\ UNCHANGED <<failureDomains, healthStatus, analysisError>>

fetchFailureDomainsSuccess(payload) ==
    /\ failureDomains' = Some(payload)
    /\ analysisLoading' = FALSE
    /\ UNCHANGED <<impactAnalysis, healthStatus, analysisError>>

fetchHealthStatusSuccess(payload) ==
    /\ healthStatus' = Some(payload)
    /\ analysisLoading' = FALSE
    /\ UNCHANGED <<impactAnalysis, failureDomains, analysisError>>

fetchAnalysisFailure(payload) ==
    /\ analysisLoading' = FALSE
    /\ analysisError' = payload
    /\ UNCHANGED <<impactAnalysis, failureDomains, healthStatus>>

----------------------------------------------------------------------------
(* Analysis page *)

MaxAnalysisRequests == 1

ImpactRequest(componentId) ==
    [kind |-> "impact", componentId |-> componentId, componentIds |-> <<>>]

DomainsRequest(componentIds) ==
    [kind |-> "domains", componentId |-> "", componentIds |-> componentIds]

HealthRequest == [kind |-> "health", componentId |-> "", componentIds |-> <<>>]

\* Array toggle: drop the id when it is included, append it when it is not
Toggle(s, id) == IF Includes(s, id) THEN Without(s, id) ELSE Append(s, id)

ImpactAnalysisStartedUnguarded(componentId) ==
    /\ Len(analysisRequests) < MaxAnalysisRequests
    /\ fetchAnalysisStart
    /\ analysisRequests' = Append(analysisRequests, ImpactRequest(componentId))

\* handleImpactAnalysis up to its await, reading the selectedComponentId it closed over
ImpactAnalysisStarted(componentId) ==
    IF componentId = ""
    THEN UNCHANGED <<analysisVars, analysisRequests>>
    ELSE /\ Len(analysisRequests) < MaxAnalysisRequests
         /\ fetchAnalysisStart
         /\ analysisRequests' = Append(analysisRequests, ImpactRequest(componentId))

\* handleFailureDomainAnalysis up to its await
FailureDomainAnalysisStarted(componentIds) ==
    IF Len(componentIds) = 0
    THEN UNCHANGED <<analysisVars, analysisRequests>>
    ELSE /\ Len(analysisRequests) < MaxAnalysisRequests
         /\ fetchAnalysisStart
         /\ analysisRequests' = Append(analysisRequests, DomainsRequest(componentIds))

fetchHealthStatus ==
    /\ Len(analysisRequests) < MaxAnalysisRequests
    /\ fetchAnalysisStart
    /\ analysisRequests' = Append(analysisRequests, HealthRequest)
    /\ UNCHANGED <<selectedComponentId, selectedComponents, analysisType,
                   analysisDialogOpen, tabValue>>
    /\ UNCHANGED offAnalysisPage

openAnalysisDialog ==
    \E type \in {"impact", "domain"} :
        /\ analysisType' = type
        /\ analysisDialogOpen' = TRUE
        /\ UNCHANGED <<selectedComponentId, selectedComponents, tabValue, analysisRequests>>
        /\ UNCHANGED <<analysisVars, offAnalysisPage>>

cancelAnalysisDialog ==
    /\ analysisDialogOpen
    /\ analysisDialogOpen' = FALSE
    /\ UNCHANGED <<selectedComponentId, selectedComponents, analysisType, tabValue,
                   analysisRequests>>
    /\ UNCHANGED <<analysisVars, offAnalysisPage>>

\* The Select of the impact dialog
chooseComponent ==
    /\ analysisDialogOpen
    /\ analysisType = "impact"
    /\ \E id \in DOMAIN components : selectedComponentId' = id
    /\ UNCHANGED <<selectedComponents, analysisType, analysisDialogOpen, tabValue,
                   analysisRequests>>
    /\ UNCHANGED <<analysisVars, offAnalysisPage>>

\* A Chip of the failure-domain dialog
toggleComponent ==
    /\ analysisDialogOpen
    /\ analysisType # "impact"
    /\ \E id \in DOMAIN components : selectedComponents' = Toggle(selectedComponents, id)
    /\ UNCHANGED <<selectedComponentId, analysisType, analysisDialogOpen, tabValue,
                   analysisRequests>>
    /\ UNCHANGED <<analysisVars, offAnalysisPage>>

\* The dialog's Run Analysis button, disabled while nothing is selected
RunDisabled ==
    IF analysisType = "impact" THEN selectedComponentId = "" ELSE Len(selectedComponents) = 0

runAnalysis ==
    /\ analysisDialogOpen
    /\ ~RunDisabled
    /\ IF analysisType = "impact"
       THEN ImpactAnalysisStarted(selectedComponentId)
       ELSE FailureDomainAnalysisStarted(selectedComponents)
    /\ UNCHANGED <<selectedComponentId, selectedComponents, analysisType,
                   analysisDialogOpen, tabValue>>
    /\ UNCHANGED offAnalysisPage

\* The graph is rendered while loading is false, behind the modal dialog
GraphClickable == ~analysisLoading /\ ~analysisDialogOpen

handleNodeClick ==
    \E nodeId \in DOMAIN components :
        /\ GraphClickable
        /\ IF analysisType = "impact"
           THEN /\ selectedComponentId' = nodeId
                /\ ImpactAnalysisStarted(selectedComponentId)
                /\ UNCHANGED selectedComponents
           ELSE /\ selectedComponents' = Toggle(selectedComponents, nodeId)
                /\ UNCHANGED <<selectedComponentId, analysisVars, analysisRequests>>
        /\ UNCHANGED <<analysisType, analysisDialogOpen, tabValue>>
        /\ UNCHANGED offAnalysisPage

\* What the backend answers to a request
Answer(r) ==
    CASE r.kind = "impact" -> GetAffectedComponents(registry, r.componentId)
      [] r.kind = "domains" -> GetFailureDomains(registry, r.componentIds)
      [] r.kind = "health" -> GetHealthStatus(registry)

\* A handler after its await, the backend having answered
analysisAnswered ==
    \E i \in 1..Len(analysisRequests) :
        LET r == analysisRequests[i] IN
        /\ analysisRequests' = RemoveAt(analysisRequests, i)
        /\ IF ~Answer(r).ok
           THEN /\ fetchAnalysisFailure(Answer(r).error)
                /\ UNCHANGED <<tabValue, analysisDialogOpen>>
           ELSE CASE r.kind = "impact" ->
                       /\ fetchImpactAnalysisSuccess(Answer(r).result)
                       /\ tabValue' = 1
                       /\ analysisDialogOpen' = FALSE
                  [] r.kind = "domains" ->
                       /\ fetchFailureDomainsSuccess(Answer(r).result)
                       /\ tabValue' = 2
                       /\ analysisDialogOpen' = FALSE
                  [] r.kind = "health" ->
                       /\ fetchHealthStatusSuccess(Answer(r).result)
                       /\ UNCHANGED <<tabValue, analysisDialogOpen>>
        /\ UNCHANGED <<selectedComponentId, selectedComponents, analysisType>>
        /\ UNCHANGED offAnalysisPage

\* A handler after its await, the call having thrown
analysisFailed ==
    \E i \in 1..Len(analysisRequests) :
        /\ analysisRequests' = RemoveAt(analysisRequests, i)
        /\ fetchAnalysisFailure("Network Error")
        /\ UNCHANGED <<selectedComponentId, selectedComponents, analysisType,
                       analysisDialogOpen, tabValue>>
        /\ UNCHANGED offAnalysisPage

handleTabChange ==
    \E newValue \in 0..2 :
        /\ tabValue' = newValue
        /\ UNCHANGED <<selectedComponentId, selectedComponents, analysisType,
                       analysisDialogOpen, analysisRequests>>
        /\ UNCHANGED <<analysisVars, offAnalysisPage>>

\* The graphs the page is opened on: the store holds what the backend holds
PageGraphs == {Snapshot(CompIds, E) : E \in SUBSET {<<"c1", "c2">>}}

InitAnalysisPage ==
    /\ InitSlices
    /\ route = "/analysis"
    /\ registry \in PageGraphs
    /\ components = registry

NextAnalysisPage ==
    \/ fetchHealthStatus
    \/ openAnalysisDialog
    \/ cancelAnalysisDialog
    \/ chooseComponent
    \/ toggleComponent
    \/ runAnalysis
    \/ handleNodeClick
    \/ handleTabChange
    \/ analysisAnswered
    \/ analysisFailed

SpecAnalysisPage == InitAnalysisPage /\ [][NextAnalysisPage]_vars

----------------------------------------------------------------------------
(* Predictions page *)

MaxPredRequests == 1

Days == {"Monday", "Tuesday", "Wednesday", "Thursday", "Friday", "Saturday", "Sunday"}

TimeSlots == {"10:00-12:00", "14:00-16:00"}

RiskLevels == {"low", "medium", "high"}

Window(time, level) == [time |-> time, risk_level |-> level]

\* A calendar with both slots on every day
FullWindows(morning, afternoon) ==
    [d \in Days |-> <<Window("10:00-12:00", morning), Window("14:00-16:00", afternoon)>>]

\* getOptimalWindows() responses: full calendars, one without Sunday, one whose
\* Monday lacks the afternoon slot
WindowInputs ==
    {FullWindows(m, a) : m \in RiskLevels, a \in RiskLevels}
        \cup {[d \in Days \ {"Sunday"} |-> FullWindows("low", "high")[d]]}
        \cup {[FullWindows("high", "low") EXCEPT !["Monday"] = <<Window("10:00-12:00", "high")>>]}

\* The page renders predictions.map(...), which an object does not have
PredictionsPageRenders == predictionsObject = None

LoadRequest == [kind |-> "load", components |-> <<>>]

CreateRequest(componentIds) == [kind |-> "create", components |-> componentIds]

fetchPredictionsStart ==
    /\ predLoading' = TRUE
    /\ predError' = Null
    /\ predAction' = "fetchPredictionsStart"
    /\ UNCHANGED <<predictions, predictionsObject, selectedPrediction, optimalWindows>>

\* fetchPredictionsSuccess handed the object the page builds: state.predictions = payload
fetchPredictionsSuccessWithObject(payload) ==
    /\ predictionsObject' = Some(payload)
    /\ predictions' = <<>>
    /\ predLoading' = FALSE
    /\ predAction' = "fetchPredictionsSuccess"
    /\ UNCHANGED <<selectedPrediction, optimalWindows, predError>>

fetchPredictionsFailure(payload) ==
    /\ predLoading' = FALSE
    /\ predError' = payload
    /\ predAction' = "fetchPredictionsFailure"
    /\ UNCHANGED <<predictions, predictionsObject, selectedPrediction, optimalWindows>>

\* The mount effect and the Refresh Predictions button, up to the await
loadPredictions ==
    /\ PredictionsPageRenders
    /\ Len(predRequests) < MaxPredRequests
    /\ fetchPredictionsStart
    /\ predRequests' = Append(predRequests, LoadRequest)
    /\ UNCHANGED <<selectedComponentIds, newDeploymentDialogOpen>>
    /\ UNCHANGED offPredictionsPage

\* After the await: getPredictions and getOptimalWindows have both answered
predictionsLoaded ==
    \E i \in 1..Len(predRequests) :
        \E predictionsData \in PredictionListInputs, windowsData \in WindowInputs :
            /\ predRequests[i].kind = "load"
            /\ predRequests' = RemoveAt(predRequests, i)
            /\ fetchPredictionsSuccessWithObject(
                   [predictions |-> predictionsData, optimalWindows |-> windowsData])
            /\ UNCHANGED <<selectedComponentIds, newDeploymentDialogOpen>>
            /\ UNCHANGED offPredictionsPage

\* After the await: one of the two calls has thrown
predictionsLoadFailed ==
    \E i \in 1..Len(predRequests) :
        /\ predRequests[i].kind = "load"
        /\ predRequests' = RemoveAt(predRequests, i)
        /\ fetchPredictionsFailure("Network Error")
        /\ UNCHANGED <<selectedComponentIds, newDeploymentDialogOpen>>
        /\ UNCHANGED offPredictionsPage

\* The deployment risk scorer: a prediction for the deployment, InvalidInput for no target
PredictDeploymentRisk(deploymentId, componentIds, risk) ==
    IF Len(componentIds) = 0 THEN [ok |-> FALSE, error |-> "InvalidInput"]
    ELSE Ok(MkPrediction(deploymentId, risk))

createPredictionStart ==
    /\ predLoading' = TRUE
    /\ predError' = Null
    /\ predAction' = "createPredictionStart"
    /\ UNCHANGED <<predictions, predictionsObject, selectedPrediction, optimalWindows>>

createPredictionSuccess(payload) ==
    /\ predictions' = Unshift(predictions, payload)
    /\ predLoading' = FALSE
    /\ predAction' = "createPredictionSuccess"
    /\ UNCHANGED <<predictionsObject, selectedPrediction, optimalWindows, predError>>

createPredictionFailure(payload) ==
    /\ predLoading' = FALSE
    /\ predError' = payload
    /\ predAction' = "createPredictionFailure"
    /\ UNCHANGED <<predictions, predictionsObject, selectedPrediction, optimalWindows>>

openNewDeploymentDialog ==
    /\ PredictionsPageRenders
    /\ newDeploymentDialogOpen' = TRUE
    /\ UNCHANGED <<selectedComponentIds, predRequests, optimalWindows, predError,
                   predictionsObject, predVars>>
    /\ UNCHANGED offPredictionsPage

cancelNewDeploymentDialog ==
    /\ PredictionsPageRenders
    /\ newDeploymentDialogOpen
    /\ newDeploymentDialogOpen' = FALSE
    /\ UNCHANGED <<selectedComponentIds, predRequests, optimalWindows, predError,
                   predictionsObject, predVars>>
    /\ UNCHANGED offPredictionsPage

\* A Chip of the new-deployment dialog
toggleDeploymentComponent ==
    /\ PredictionsPageRenders
    /\ newDeploymentDialogOpen
    /\ \E id \in DOMAIN components :
           selectedComponentIds' = Toggle(selectedComponentIds, id)
    /\ UNCHANGED <<newDeploymentDialogOpen, predRequests, optimalWindows, predError,
                   predictionsObject, predVars>>
    /\ UNCHANGED offPredictionsPage

\* The Analyze Risk button is disabled while no component is selected
AnalyzeRiskDisabled == Len(selectedComponentIds) = 0

\* handleCreatePrediction up to its await
handleCreatePrediction ==
    /\ PredictionsPageRenders
    /\ newDeploymentDialogOpen
    /\ ~AnalyzeRiskDisabled
    /\ Len(predRequests) < MaxPredRequests
    /\ createPredictionStart
    /\ predRequests' = Append(predRequests, CreateRequest(selectedComponentIds))
    /\ UNCHANGED <<selectedComponentIds, newDeploymentDialogOpen>>
    /\ UNCHANGED offPredictionsPage

\* handleCreatePrediction after its await, the backend having answered; unshift on
\* an object throws inside the try, which the catch reports
predictionCreated ==
    \E i \in 1..Len(predRequests), risk \in RiskInputs :
        LET answer == PredictDeploymentRisk("d1", predRequests[i].components, risk) IN
        /\ predRequests[i].kind = "create"
        /\ predRequests' = RemoveAt(predRequests, i)
        /\ IF ~answer.ok
           THEN createPredictionFailure(answer.error) /\ UNCHANGED newDeploymentDialogOpen
           ELSE IF predictionsObject # None
           THEN createPredictionFailure("TypeError") /\ UNCHANGED newDeploymentDialogOpen
           ELSE /\ Len(predictions) < MaxPredictions
                /\ createPredictionSuccess(answer.result)
                /\ newDeploymentDialogOpen' = FALSE
        /\ UNCHANGED selectedComponentIds
        /\ UNCHANGED offPredictionsPage

\* handleCreatePrediction after its await, the call having thrown
predictionCreateFailed ==
    \E i \in 1..Len(predRequests) :
        /\ predRequests[i].kind = "create"
        /\ predRequests' = RemoveAt(predRequests, i)
        /\ createPredictionFailure("Network Error")
        /\ UNCHANGED <<selectedComponentIds, newDeploymentDialogOpen>>
        /\ UNCHANGED offPredictionsPage

NextPredictionsPage ==
    \/ loadPredictions
    \/ predictionsLoaded
    \/ predictionsLoadFailed
    \/ openNewDeploymentDialog
    \/ cancelNewDeploymentDialog
    \/ toggleDeploymentComponent
    \/ handleCreatePrediction
    \/ predictionCreated
    \/ predictionCreateFailed

InitPredictionsPage ==
    /\ InitSlices
    /\ route = "/predictions"
    /\ registry \in PageGraphs
    /\ components = registry

SpecPredictionsPage == InitPredictionsPage /\ [][NextPredictionsPage]_vars

----------------------------------------------------------------------------
(* A session on the Analysis page or on the Predictions page *)

InitSession ==
    /\ InitSlices
    /\ route \in {"/analysis", "/predictions"}
    /\ registry \in PageGraphs
    /\ components = registry

NextSession ==
    \/ route = "/analysis" /\ NextAnalysisPage
    \/ route = "/predictions" /\ NextPredictionsPage

SpecSession == InitSession /\ [][NextSession]_vars

\* The request a step has just sent, if it sent one of that kind
Sent(old, new, kind) == Len(new) > Len(old) /\ new[Len(new)].kind = kind

\* C14: no request reaches the engine with an empty target: a createPrediction
\* request always carries components, a failure-domain request always carries
\* component ids, an impact request always carries a component id; and a handler
\* run on an empty target sends no request and produces no new prediction or
\* analysis result.
NoEmptyTargets ==
    /\ [](/\ \A r \in Elems(analysisRequests) :
                /\ r.kind = "impact" => r.componentId # ""
                /\ r.kind = "domains" => Len(r.componentIds) > 0
          /\ \A r \in Elems(predRequests) :
                r.kind = "create" => Len(r.components) > 0)
    /\ [][/\ selectedComponentId = "" => ~Sent(analysisRequests, analysisRequests', "impact")
          /\ Len(selectedComponents) = 0 =>
                ~Sent(analysisRequests, analysisRequests', "domains")
          /\ Len(selectedComponentIds) = 0 => ~Sent(predRequests, predRequests', "create")
          /\ Len(analysisRequests') >= Len(analysisRequests) =>
                /\ impactAnalysis' = impactAnalysis
                /\ failureDomains' = failureDomains
          /\ Len(predRequests') >= Len(predRequests) => predictions' = predictions]_vars

\* A node was clicked with no component selected and nothing was sent, while
\* requests with targets have been sent and answered
NoEmptyTargetsWitness ==
    /\ route = "/analysis"
    /\ analysisType = "impact"
    /\ selectedComponentId # ""
    /\ analysisRequests = <<>>
    /\ impactAnalysis = None
    /\ failureDomains # None

----------------------------------------------------------------------------
(* Results of the alert reducers *)

NewAlertAtFront ==
    /\ [](\A a \in NewAlertInputs : Head(UnshiftAlert(alerts, a)) = a)
    /\ [][alerts' # alerts /\ alertAction' = "addNewAlert" =>
            /\ Len(alerts') = Len(alerts) + 1
            /\ Head(alerts') \in AlertInputs
            /\ ~Listed(alerts, Head(alerts').alert_id)
            /\ \A i \in 1..Len(alerts) : alerts'[i + 1] = alerts[i]]_vars

NewAlertAtFrontWitness ==
    /\ alertAction = "addNewAlert"
    /\ Len(alerts) = 2
    /\ alerts[1].alert_id = "a2"
    /\ alerts[2].status = "acknowledged"

----------------------------------------------------------------------------
(* The Predictions page's load *)

\* C16: after the Predictions page's load completes successfully,
\* state.predictions is the list of predictions getPredictions returned,
\* state.optimalWindows is the mapping getOptimalWindows returned, and loading is
\* false.
LoadStoresListAndWindows ==
    [][predAction' = "fetchPredictionsSuccess" /\ Len(predRequests') < Len(predRequests) =>
          /\ predictionsObject' = None
          /\ predictions' \in PredictionListInputs
          /\ optimalWindows' \in {Some(w) : w \in WindowInputs}
          /\ predLoading' = FALSE]_vars

----------------------------------------------------------------------------
(* The risk calendar of the Predictions page *)

DayOrder == <<"Monday", "Tuesday", "Wednesday", "Thursday", "Friday", "Saturday", "Sunday">>

SlotOrder == <<"10:00-12:00", "14:00-16:00">>

\* Array.prototype.find on time; 0 stands for undefined
FindSlot(slots, time) ==
    IF \E i \in 1..Len(slots) : slots[i].time = time
    THEN CHOOSE i \in 1..Len(slots) :
            /\ slots[i].time = time
            /\ \A j \in 1..(i - 1) : slots[j].time # time
    ELSE 0

\* The cell value of prepareCalendarData, in hundredths
SlotValue(windows, day, time) ==
    IF day \notin DOMAIN windows \/ FindSlot(windows[day], time) = 0 THEN 50
    ELSE LET slot == windows[day][FindSlot(windows[day], time)]
         IN  IF slot.risk_level = "low" THEN 30
             ELSE IF slot.risk_level = "medium" THEN 60 ELSE 90

\* days.flatMap(day => timeSlots.map(time => cell))
prepareCalendarData ==
    IF optimalWindows = None THEN <<>>
    ELSE [k \in 1..(Len(DayOrder) * Len(SlotOrder)) |->
            LET day == DayOrder[((k - 1) \div Len(SlotOrder)) + 1]
                time == SlotOrder[((k - 1) % Len(SlotOrder)) + 1]
            IN  [day |-> day, time |-> time,
                 value |-> SlotValue(optimalWindows[1], day, time)]]

\* The label the heatmap gives a cell
RiskLabel(value) == IF value < 40 THEN "Low" ELSE IF value < 70 THEN "Medium" ELSE "High"

\* The label of the slot's risk_level in a calendar, Medium for a missing slot
LabelIn(windows, day, time) ==
    IF day \notin DOMAIN windows \/ FindSlot(windows[day], time) = 0 THEN "Medium"
    ELSE LET level == windows[day][FindSlot(windows[day], time)].risk_level
         IN  CASE level = "low" -> "Low" [] level = "medium" -> "Medium" [] level = "high" -> "High"

\* C17: once the calendar is loaded, for every day Monday..Sunday and each of the
\* two slots prepareCalendarData yields exactly one cell, whose heatmap label
\* equals the slot's risk_level in optimalWindows, Medium for a missing slot.
CalendarShowsWindows ==
    predAction = "fetchPredictionsSuccess" =>
        \A day \in Days, time \in TimeSlots :
            LET cells == {k \in 1..Len(prepareCalendarData) :
                            /\ prepareCalendarData[k].day = day
                            /\ prepareCalendarData[k].time = time}
            IN  /\ Cardinality(cells) = 1
                /\ \A k \in cells :
                       RiskLabel(prepareCalendarData[k].value)
                           = LabelIn(optimalWindows[1], day, time)

----------------------------------------------------------------------------
(* The engine queried over every snapshot *)

\* Lists of identifiers without repetition
IdLists == {s \in UNION {[1..n -> EngineIds] : n \in 0..Cardinality(EngineIds)} : NoDup(s)}

getAffectedComponents ==
    \E componentId \in EngineIds :
        /\ engineQuery' = ImpactRequest(componentId)
        /\ engineAnswer' = GetAffectedComponents(registry, componentId)
        /\ UNCHANGED <<registry, route, components, selectedComponent, infraLoading,
                       alertVars, predVars, alertsPageVars, analysisVars,
                       analysisPageVars, predPageVars, shellVars, now>>

getFailureDomains ==
    \E componentIds \in IdLists :
        /\ engineQuery' = DomainsRequest(componentIds)
        /\ engineAnswer' = GetFailureDomains(registry, componentIds)
        /\ UNCHANGED <<registry, route, components, selectedComponent, infraLoading,
                       alertVars, predVars, alertsPageVars, analysisVars,
                       analysisPageVars, predPageVars, shellVars, now>>

InitEngine ==
    /\ InitSlices
    /\ route = "/"
    /\ registry \in Snapshots
    /\ components = <<>>

NextEngine ==
    \/ getAffectedComponents
    \/ getFailureDomains

SpecEngine == InitEngine /\ [][NextEngine]_vars

\* x and y are joined by a dependency or dependent edge of either
Linked(g, x, y) ==
    \/ Includes(g[x].dependencies, y) \/ Includes(g[x].dependents, y)
    \/ Includes(g[y].dependencies, x) \/ Includes(g[y].dependents, x)

\* What paths of edges that stay within S reach from the members of R
RECURSIVE ReachedWithin(_, _, _)
ReachedWithin(g, R, S) ==
    LET more == R \cup {y \in S : \E x \in R : Linked(g, x, y)}
    IN  IF more = R THEN R ELSE ReachedWithin(g, more, S)

\* C19: for every graph G and component c of G, GetAffectedComponents(c)
\* succeeds, never includes c, lists no identifier twice, and returns only
\* identifiers reachable from c over dependency and dependent edges, cycles
\* included.
AffectedAreReachable ==
    engineQuery.kind = "impact" /\ engineQuery.componentId \in DOMAIN registry =>
        /\ engineAnswer.ok
        /\ ~Includes(engineAnswer.result.affected_components, engineQuery.componentId)
        /\ NoDup(engineAnswer.result.affected_components)
        /\ Elems(engineAnswer.result.affected_components)
               \subseteq ReachedWithin(registry, {engineQuery.componentId}, DOMAIN registry)

\* A query answered on a three-cycle
AffectedAreReachableWitness ==
    /\ engineQuery.kind = "impact"
    /\ engineAnswer.ok
    /\ Len(engineAnswer.result.affected_components) = 2
    /\ \A x \in DOMAIN registry : Len(registry[x].dependencies) = 1
    /\ DOMAIN registry = EngineIds

\* The domain of the answer that holds x
DomainOf(domains, x) == CHOOSE i \in 1..Len(domains) : Includes(domains[i], x)

\* C20: for every requested set S whose identifiers are all present,
\* GetFailureDomains(S) returns domains whose union is S, each identifier in
\* exactly one domain once, and two identifiers share a domain exactly when a
\* path of edges lying entirely within S connects them.
DomainsPartitionRequest ==
    engineQuery.kind = "domains" /\ Elems(engineQuery.componentIds) \subseteq DOMAIN registry =>
        LET S == Elems(engineQuery.componentIds)
            domains == engineAnswer.result.failure_domains
        IN  /\ engineAnswer.ok
            /\ UNION {Elems(domains[i]) : i \in 1..Len(domains)} = S
            /\ \A i \in 1..Len(domains) : NoDup(domains[i]) /\ Len(domains[i]) > 0
            /\ \A i, j \in 1..Len(domains) :
                   i # j => Elems(domains[i]) \cap Elems(domains[j]) = {}
            /\ \A x, y \in S :
                   DomainOf(domains, x) = DomainOf(domains, y)
                       <=> y \in ReachedWithin(registry, {x}, S)

\* Two requested components joined only through a third that was not requested
DomainsPartitionRequestWitness ==
    /\ engineQuery.kind = "domains"
    /\ Len(engineQuery.componentIds) = 2
    /\ DOMAIN registry = EngineIds
    /\ Len(engineAnswer.result.failure_domains) = 2
    /\ ReachedWithin(registry, {engineQuery.componentIds[1]}, EngineIds) = EngineIds

----------------------------------------------------------------------------
(* Infrastructure page *)

MaxAffectedRequests == 2
MaxComponentRequests == 1

offInfraPage == <<registry, engineVars, route, alertsPageVars, analysisVars, analysisPageVars,
                  predPageVars, alertVars, predVars, errorVars, uiVars, now>>

\* The details dialog is rendered for a selected component of the store and shown
\* while detailsOpen
ComponentDialogShown ==
    /\ selectedComponent # Null
    /\ selectedComponent \in DOMAIN components
    /\ infraDetailsOpen

\* What can be clicked to select a component: the chips of the modal dialog while
\* it is shown (dependencies, dependents, and the affected list once it has
\* loaded), the graph nodes and cards otherwise
Selectable ==
    IF ComponentDialogShown
    THEN Elems(components[selectedComponent].dependencies)
            \cup Elems(components[selectedComponent].dependents)
            \cup (IF loadingAffected THEN {} ELSE Elems(affectedComponents))
    ELSE IF infraLoading THEN {} ELSE DOMAIN components

\* handleSelectComponent up to its await
handleSelectComponent ==
    \E componentId \in Selectable :
        /\ Len(affectedRequests) < MaxAffectedRequests
        /\ selectedComponent' = componentId
        /\ infraDetailsOpen' = TRUE
        /\ loadingAffected' = TRUE
        /\ affectedRequests' = Append(affectedRequests, componentId)
        /\ UNCHANGED <<components, infraLoading, affectedComponents, componentRequests,
                       offInfraPage>>

\* GET /infrastructure/{id}/affected: the components affected by componentId
AffectedAnswer(componentId) == GetAffectedComponents(registry, componentId)

\* affected.map(comp => comp.component_id)
AffectedIds(componentId) == AffectedAnswer(componentId).result.affected_components

\* handleSelectComponent after its await, the backend having answered
affectedAnswered ==
    \E i \in 1..Len(affectedRequests) :
        /\ AffectedAnswer(affectedRequests[i]).ok
        /\ affectedComponents' = AffectedIds(affectedRequests[i])
        /\ loadingAffected' = FALSE
        /\ affectedRequests' = RemoveAt(affectedRequests, i)
        /\ UNCHANGED <<infraVars, infraDetailsOpen, componentRequests, offInfraPage>>

\* handleSelectComponent after its await, the call having thrown: console.error,
\* then the finally block
affectedFailed ==
    \E i \in 1..Len(affectedRequests) :
        /\ loadingAffected' = FALSE
        /\ affectedRequests' = RemoveAt(affectedRequests, i)
        /\ UNCHANGED <<infraVars, infraDetailsOpen, affectedComponents, componentRequests,
                       offInfraPage>>

closeComponentDetails ==
    /\ ComponentDialogShown
    /\ infraDetailsOpen' = FALSE
    /\ UNCHANGED <<infraVars, affectedComponents, loadingAffected, affectedRequests,
                   componentRequests, offInfraPage>>

\* Infrastructure.handleUpdateStatus up to its await, called by the Select of the dialog
handleUpdateComponentStatus ==
    /\ ComponentDialogShown
    /\ Len(componentRequests) < MaxComponentRequests
    /\ \E status \in StatusInputs :
           componentRequests' = Append(componentRequests,
               [componentId |-> selectedComponent, status |-> status])
    /\ UNCHANGED <<infraVars, infraDetailsOpen, affectedComponents, loadingAffected,
                   affectedRequests, offInfraPage>>

\* Infrastructure.handleUpdateStatus after its await, the backend having accepted
updateComponentAccepted ==
    \E i \in 1..Len(componentRequests) :
        /\ components' = SetStatus(components, componentRequests[i].componentId,
                                   componentRequests[i].status, now)
        /\ componentRequests' = RemoveAt(componentRequests, i)
        /\ UNCHANGED <<selectedComponent, infraLoading, infraDetailsOpen, affectedComponents,
                       loadingAffected, affectedRequests, offInfraPage>>

\* Infrastructure.handleUpdateStatus after its await, the call having thrown
updateComponentRejected ==
    \E i \in 1..Len(componentRequests) :
        /\ componentRequests' = RemoveAt(componentRequests, i)
        /\ UNCHANGED <<infraVars, infraDetailsOpen, affectedComponents, loadingAffected,
                       affectedRequests, offInfraPage>>

InitInfraPage ==
    /\ InitSlices
    /\ route = "/infrastructure"
    /\ registry \in PageGraphs
    /\ components = registry

NextInfraPage ==
    \/ handleSelectComponent
    \/ closeComponentDetails
    \/ affectedAnswered
    \/ affectedFailed
    \/ handleUpdateComponentStatus
    \/ updateComponentAccepted
    \/ updateComponentRejected
    \/ Tick

SpecInfraPage == InitInfraPage /\ [][NextInfraPage]_vars

\* C21: on the Infrastructure page, whenever no affected-components request is
\* in flight, the displayed affectedComponents list is the one the backend
\* returns for the currently selected component, for any interleaving of
\* selections, responses and failures.
AffectedMatchSelection ==
    (affectedRequests = <<>> /\ selectedComponent # Null)
        => affectedComponents = AffectedIds(selectedComponent)

----------------------------------------------------------------------------
(* Overlapping requests against one loading flag *)

MaxOverlap == 2

\* The requests the Analysis page can send on one of the page graphs
AnalysisRequestInputs ==
    {HealthRequest} \cup {ImpactRequest(id) : id \in CompIds}
        \cup {DomainsRequest(<<"c1", "c2">>)}

\* The mount effect, handleImpactAnalysis or handleFailureDomainAnalysis up to the
\* await, while earlier requests may still be awaiting their response
analysisFetchStarted ==
    \E r \in AnalysisRequestInputs :
        /\ Len(analysisRequests) < MaxOverlap
        /\ fetchAnalysisStart
        /\ analysisRequests' = Append(analysisRequests, r)
        /\ UNCHANGED <<selectedComponentId, selectedComponents, analysisType,
                       analysisDialogOpen, tabValue>>
        /\ UNCHANGED offAnalysisPage

\* The mount effect or the Refresh Predictions button up to the await, while an
\* earlier load may still be awaiting its response
predictionsFetchStarted ==
    /\ PredictionsPageRenders
    /\ Len(predRequests) < MaxOverlap
    /\ fetchPredictionsStart
    /\ predRequests' = Append(predRequests, LoadRequest)
    /\ UNCHANGED <<selectedComponentIds, newDeploymentDialogOpen>>
    /\ UNCHANGED offPredictionsPage

NextOverlap ==
    \/ route = "/analysis" /\ analysisFetchStarted
    \/ route = "/analysis" /\ analysisAnswered
    \/ route = "/analysis" /\ analysisFailed
    \/ route = "/predictions" /\ predictionsFetchStarted
    \/ route = "/predictions" /\ predictionsLoaded
    \/ route = "/predictions" /\ predictionsLoadFailed

SpecOverlap == InitSession /\ [][NextOverlap]_vars

\* C22: in the analysis slice, and likewise in the predictions slice, loading is
\* true in every state in which a request started with a fetch...Start action has
\* not yet dispatched its success or failure.
LoadingTracksInFlight ==
    /\ analysisRequests # <<>> => analysisLoading
    /\ predRequests # <<>> => predLoading

----------------------------------------------------------------------------
(* Clicking a node of the Analysis page's graph *)

\* C23: while the analysis type is 'impact', a click on a graph node issues an
\* impact-analysis request, and the request carries the identifier of the node
\* that was clicked (which the click also makes the selected one).
NodeClickAnalysesClickedNode ==
    [][(/\ route = "/analysis"
        /\ GraphClickable
        /\ analysisType = "impact"
        /\ \/ selectedComponentId' # selectedComponentId
           \/ Sent(analysisRequests, analysisRequests', "impact"))
        => /\ Sent(analysisRequests, analysisRequests', "impact")
           /\ analysisRequests'[Len(analysisRequests')].componentId = selectedComponentId']_vars

----------------------------------------------------------------------------
(* Status updates made from the Alerts page and from the Infrastructure page *)

InitUpdates ==
    /\ InitSlices
    /\ route \in {"/alerts", "/infrastructure"}
    /\ registry \in PageGraphs
    /\ components = registry

NextUpdates ==
    \/ route = "/alerts" /\ NextAlertsPage
    \/ route = "/infrastructure" /\ NextInfraPage

SpecUpdates == InitUpdates /\ [][NextUpdates]_vars

----------------------------------------------------------------------------
(* The selected alert under every reducer of the alerts slice that touches it *)

NextSelection ==
    \/ fetchAlertsSuccess
    \/ selectAlert
    \/ clearSelectedAlert
    \/ updateAlertStatus
    \/ addNewAlert
    \/ updateAlert
    \/ deleteAlert

SpecSelection == Init /\ [][NextSelection]_vars

\* C25: selectedAlert is either null or an alert with a defined alert_id, in
\* every reachable state of the alerts slice; and after updateAlertStatus(id, s)
\* with selectedAlert.alert_id = id, selectedAlert.status equals s.
SelectedAlertWellFormed ==
    /\ [](selectedAlert # None => selectedAlert[1].alert_id \in AlertIds)
    /\ [][\A id \in AlertIds, s \in AlertStatus, notes \in NoteInputs :
            (/\ selectedAlert # None
             /\ selectedAlert[1].alert_id = id
             /\ UpdateAlertStatusReduced(id, s, notes))
                => selectedAlert'[1].status = s]_vars

----------------------------------------------------------------------------
(* uiSlice: the notification list *)

NotificationLimit == 50
MaxNotified == 52

offUi == <<infraVars, alertVars, predVars, alertsPageVars, registry, engineVars, analysisVars,
           analysisPageVars, route, predPageVars, errorVars, infraPageVars, now>>

\* The n-th notification to be raised
NotificationInput(n) == [message |-> n, type |-> "info"]

\* { ...payload, id, timestamp, read: false }
Notification(payload, serial, t) ==
    [message |-> payload.message, type |-> payload.type, id |-> <<t, serial>>,
     timestamp |-> t, read |-> FALSE]

LimitedFromEnd(ns) ==
    IF Len(ns) > NotificationLimit
    THEN SubSeq(ns, Len(ns) - NotificationLimit + 1, Len(ns)) ELSE ns

\* if (length > 50) notifications = notifications.slice(0, 50)
Limited(ns) ==
    IF Len(ns) > NotificationLimit THEN SubSeq(ns, 1, NotificationLimit) ELSE ns

addNotification ==
    /\ notified < MaxNotified
    /\ notified' = notified + 1
    /\ notifications' =
           Limited(<<Notification(NotificationInput(notified + 1), notified + 1, now)>>
                       \o notifications)
    /\ UNCHANGED offUi

markAllNotificationsAsRead ==
    /\ notifications' = [i \in 1..Len(notifications) |->
                            [notifications[i] EXCEPT !.read = TRUE]]
    /\ UNCHANGED <<notified, offUi>>

clearNotifications ==
    /\ notifications' = <<>>
    /\ UNCHANGED <<notified, offUi>>

NextNotifications ==
    \/ addNotification
    \/ markAllNotificationsAsRead
    \/ clearNotifications

SpecNotifications == Init /\ [][NextNotifications]_vars

\* C26: notifications never has more than 50 entries; after addNotification the
\* new notification is at index 0 with read = false, followed by the previous
\* entries in their order, of which only the oldest (those at the end) are
\* dropped when the bound is exceeded.
NotificationsBoundedNewestFirst ==
    /\ [](Len(notifications) <= NotificationLimit)
    /\ [][notified' = notified + 1 =>
            /\ notifications'[1].message = NotificationInput(notified').message
            /\ notifications'[1].read = FALSE
            /\ Tail(notifications') =
                   SubSeq(notifications, 1, Min(Len(notifications), NotificationLimit - 1))]_vars

\* The list is full, more notifications than fit have been added, and it holds
\* the newest of them, newest first
NotificationsWitness ==
    /\ notified > NotificationLimit
    /\ Len(notifications) = NotificationLimit
    /\ notifications[1].message = notified
    /\ notifications[NotificationLimit].message = notified - NotificationLimit + 1

----------------------------------------------------------------------------
(* Edge and alert lists under repeated adds *)

NextAdds ==
    \/ addComponentRelationship
    \/ addAlertToComponent
    \/ Tick

SpecAdds == InitEdges /\ [][NextAdds]_vars

\* The three identifier lists of every component
Collections(cs) ==
    [c \in DOMAIN cs |-> <<cs[c].dependencies, cs[c].dependents, cs[c].active_alerts>>]

\* C27: starting from duplicate-free lists, after any sequence of
\* addComponentRelationship and addAlertToComponent no component's dependencies,
\* dependents or active_alerts holds an identifier twice, and an add repeated on
\* the store it produced changes none of these lists.
CollectionsAreSets ==
    /\ \A c \in DOMAIN components :
           /\ NoDup(components[c].dependencies)
           /\ NoDup(components[c].dependents)
           /\ NoDup(components[c].active_alerts)
    /\ \A a \in CompIds, b \in CompIds :
           LET once == AddRelationship(components, a, b, now)
           IN  Collections(AddRelationship(once, a, b, now)) = Collections(once)
    /\ \A c \in CompIds, alertId \in AlertIds :
           LET once == AddAlert(components, c, alertId, now)
           IN  Collections(AddAlert(once, c, alertId, now)) = Collections(once)

\* Every edge and every alert has been added to c1, the self-edge last, and
\* adds have been dispatched since on a later clock
CollectionsAreSetsWitness ==
    /\ "c1" \in DOMAIN components
    /\ components["c1"].dependencies = <<"c2", "c1">>
    /\ components["c1"].dependents = <<"c2", "c1">>
    /\ components["c1"].active_alerts = <<"a2", "a1">>
    /\ components["c1"].updated_at < now

----------------------------------------------------------------------------
(* The loading and error fields of the four slices *)

ErrorInputs == {"Network Error"}

offErrors == <<alertsPageVars, registry, engineVars, analysisVars, analysisPageVars, route,
               predPageVars, predVars, infraPageVars, uiVars, now>>

fetchComponentsStart ==
    /\ infraLoading' = TRUE
    /\ infraError' = Null
    /\ UNCHANGED <<components, selectedComponent, alertVars, alertsError, offErrors>>

fetchComponentsFailure ==
    \E payload \in ErrorInputs :
        /\ infraLoading' = FALSE
        /\ infraError' = payload
        /\ UNCHANGED <<components, selectedComponent, alertVars, alertsError, offErrors>>

fetchAlertsStart ==
    /\ alertsLoading' = TRUE
    /\ alertsError' = Null
    /\ alertAction' = "fetchAlertsStart"
    /\ UNCHANGED <<alerts, selectedAlert, infraVars, infraError, offErrors>>

fetchAlertsFailure ==
    \E payload \in ErrorInputs :
        /\ alertsLoading' = FALSE
        /\ alertsError' = payload
        /\ alertAction' = "fetchAlertsFailure"
        /\ UNCHANGED <<alerts, selectedAlert, infraVars, infraError, offErrors>>

InitLoading ==
    /\ InitSlices
    /\ route \in {"/infrastructure", "/alerts", "/analysis", "/predictions"}
    /\ registry \in PageGraphs
    /\ components = registry

NextLoading ==
    \/ route = "/infrastructure" /\ fetchComponentsStart
    \/ route = "/infrastructure" /\ fetchComponentsSuccess
    \/ route = "/infrastructure" /\ fetchComponentsFailure
    \/ route = "/alerts" /\ fetchAlertsStart
    \/ route = "/alerts" /\ fetchAlertsSuccess
    \/ route = "/alerts" /\ fetchAlertsFailure
    \/ route = "/analysis" /\ analysisFetchStarted
    \/ route = "/analysis" /\ analysisAnswered
    \/ route = "/analysis" /\ analysisFailed
    \/ route = "/predictions" /\ predictionsFetchStarted
    \/ route = "/predictions" /\ predictionsLoaded
    \/ route = "/predictions" /\ predictionsLoadFailed

SpecLoading == InitLoading /\ [][NextLoading]_vars

\* C28: in the infrastructure, alerts, analysis and predictions slices, loading =
\* true implies error = null in every reachable state.
LoadingImpliesNoError ==
    /\ infraLoading => infraError = Null
    /\ alertsLoading => alertsError = Null
    /\ analysisLoading => analysisError = Null
    /\ predLoading => predError = Null

\* An analysis request was started while another was awaited and results of
\* an earlier one are stored: loading is true with no error
LoadingImpliesNoErrorWitness ==
    /\ route = "/analysis"
    /\ analysisLoading
    /\ analysisError = Null
    /\ Len(analysisRequests) = MaxOverlap
    /\ impactAnalysis # None

====
